---- MODULE Spec2Model ----
(***************************************************************************)
(* Room synchronisation server of let-s-watch-together (server part of     *)
(* room.js): the Redis room hash, the socket.io sessions and rooms, and    *)
(* the event handlers, split at their awaits.  Redis commands of the one   *)
(* client connection run in the order they are issued, so a command takes  *)
(* effect in the step that issues it and the handler's continuation is a   *)
(* later step.  Spec interleaves the handlers at their awaits, SpecSerial  *)
(* runs each to completion, SpecFaulty lets a pending Redis command be     *)
(* rejected, and SpecPlayback races playback events of two bound sessions. *)
(***************************************************************************)
EXTENDS Integers, Sequences, FiniteSets, TLC

\* ---------------------------------------------------------------- bounds
\* socket ids of the connections the server accepts (io.on('connection')
\* only registers the handlers), room ids clients may name
Conns == {"s1", "s2", "s3"}
Rooms == {"r1", "r2"}
\* inbound events (other than the close of a connection) handled in a run
MaxEvents == 3
\* the same, and the connections that send them, when handlers interleave
MaxRaceEvents == 3
RaceConns == {"s1", "s2"}
\* handlers in flight at once
MaxInFlight == 2
\* events handled in a run of playback races, the two joins among them, and
\* the room they are about
MaxPlaybackEvents == 4
PlaybackRoom == "r1"
\* playback positions clients send: 0..MaxTime
MaxTime == 1
\* largest number the room hash can hold in the model
MaxNum == MaxEvents + MaxRaceEvents + MaxPlaybackEvents

\* ---------------------------------------------------------------- values
\* a string as the sequence of its characters, so the id validator can
\* look at them
EmptyStr == << >>
IdRick == <<"d","Q","w","4","w","9","W","g","X","c","Q">>
IdXs == <<"x","x","x","x","x","x","x","x","x","x","x">>
IdShort == <<"d","Q","w","4">>
IdLong == <<"d","Q","w","4","w","9","W","g","X","c","Q","Q">>
IdBadChar == <<"d","Q","w","4","w","9","W","g","X","c","!">>
Str(s) == [type |-> "string", val |-> s]
Undefined == [type |-> "undefined", val |-> EmptyStr]
\* videoId payloads of load-video
VideoInputs == {Str(IdRick), Str(IdXs), Str(IdShort), Str(IdLong),
                Str(IdBadChar), Str(EmptyStr), Undefined}
\* roomId payloads of join-room ("" is the absent / empty room id)
RoomInputs == Rooms \cup {""}
TimeInputs == 0..MaxTime
ChatInputs == {"", "hi"}

IdChars == {"a","b","c","d","e","f","g","h","i","j","k","l","m",
            "n","o","p","q","r","s","t","u","v","w","x","y","z",
            "A","B","C","D","E","F","G","H","I","J","K","L","M",
            "N","O","P","Q","R","S","T","U","V","W","X","Y","Z",
            "0","1","2","3","4","5","6","7","8","9","_","-"}

\* the validator with its regular expression left unanchored at the end
isValidYouTubeId_Unanchored(id) ==
    /\ id.type = "string"
    /\ Len(id.val) >= 11
    /\ \A i \in 1..11 : id.val[i] \in IdChars

\* typeof id === 'string' && /^[a-zA-Z0-9_-]{11}$/.test(id)
isValidYouTubeId(id) ==
    /\ id.type = "string"
    /\ Len(id.val) = 11
    /\ \A i \in 1..Len(id.val) : id.val[i] \in IdChars

\* ---------------------------------------------------------------- store
\* String(n) and Number(s) on the numerals the hash holds
NumToString(n) == ToString(n)
StringToNum(s) == CHOOSE n \in 0..(MaxNum + 1) : ToString(n) = s
BoolToString(b) == IF b THEN "true" ELSE "false"
\* JSON.stringify / JSON.parse of the queue, which no handler changes
QueueToJson(q) == IF q = << >> THEN "[]" ELSE "[...]"
JsonToQueue(s) == IF s = "[]" THEN << >> ELSE <<"...">>

EmptyHash == [f \in {} |-> ""]
Field(data, f, dflt) == IF f \in DOMAIN data THEN data[f] ELSE dflt

\* getRoom's parse of the reply of HGETALL; NullRoom is its null
NullRoom == [null |-> TRUE]
ParseRoom(data) ==
    IF Cardinality(DOMAIN data) = 0 THEN NullRoom
    ELSE [videoId |-> Field(data, "videoId", EmptyStr),
          time |-> StringToNum(Field(data, "time", "0")),
          playing |-> (Field(data, "playing", "") = "true"),
          membersCount |-> StringToNum(Field(data, "membersCount", "0")),
          moderatorId |-> Field(data, "moderatorId", ""),
          queue |-> IF "queue" \in DOMAIN data /\ data["queue"] # ""
                    THEN JsonToQueue(data["queue"]) ELSE << >>]

\* the payload setRoom hands to HSET
Payload(state) ==
    [videoId |-> state.videoId,
     time |-> NumToString(state.time),
     playing |-> BoolToString(state.playing),
     membersCount |-> NumToString(state.membersCount),
     moderatorId |-> state.moderatorId,
     queue |-> QueueToJson(state.queue)]

\* HSET key payload: the given fields overwrite, the others stay
HSet(data, payload) == payload @@ data

\* the object ensureRoomExists creates for a room that has no hash
InitialRoom(creatorSocketId) ==
    [videoId |-> EmptyStr, time |-> 0, playing |-> FALSE, membersCount |-> 0,
     moderatorId |-> creatorSocketId, queue |-> << >>]


\* ---------------------------------------------------------------- state
VARIABLES
    store,    \* Redis: room id -> the hash stored at key room:<id>
    ttl,      \* Redis: room id -> whether the key has a pending expiry
    conn,     \* connection -> "open" or "closed"
    data,     \* connection -> socket.data: roomId and name
    rooms,    \* socket.io adapter: room id -> its sockets, in join order
    task,     \* <<connection, slot>> -> the handler in flight and its locals
    out,      \* the messages emitted by the last step, each with its audience
    nEvents,  \* inbound events received so far
    inbound   \* the event received in the last step, if it received one

vars == <<store, ttl, conn, data, rooms, task, out, nEvents, inbound>>

\* one handler of inbound events and the disconnect handler of a connection
\* may be in flight at once
Slots == {"ev", "dc"}
Tasks == Conns \X Slots
Idle == [kind |-> "idle", pc |-> "idle"]
NoData == [roomId |-> "", name |-> ""]
\* `User${Math.floor(Math.random() * 9000) + 1000}`, the random part fixed
DefaultName == "User1000"
\* the name each client sends with join-room (room.js: fixed per page load)
ClientName == [c \in Conns |-> IF c = "s1" THEN "Ann" ELSE ""]
\* an event off the wire: the socket it came in on, its name, its payload
Inbound(c, event, arg) == [conn |-> c, event |-> event, arg |-> arg]
NoEvent == [conn |-> "", event |-> "", arg |-> << >>]

Init ==
    /\ store = [r \in Rooms |-> EmptyHash]
    /\ ttl = [r \in Rooms |-> FALSE]
    /\ conn = [c \in Conns |-> "open"]
    /\ data = [c \in Conns |-> NoData]
    /\ rooms = [r \in Rooms |-> << >>]
    /\ task = [t \in Tasks |-> Idle]
    /\ out = << >>
    /\ nEvents = 0
    /\ inbound = NoEvent

\* ---------------------------------------------------------------- transport
SeqToSet(s) == {s[i] : i \in 1..Len(s)}
Without(s, c) == SelectSeq(s, LAMBDA x : x # c)
\* socket.join(roomId): a Set, so joining again keeps the place
JoinAdapter(s, c) == IF c \in SeqToSet(s) THEN s ELSE Append(s, c)

\* io.to(roomId): every socket in the room
ToRoom(roomId) == SeqToSet(rooms[roomId])
\* socket.to(roomId): every socket in the room but the sender
ToOthers(roomId, c) == SeqToSet(rooms[roomId]) \ {c}
\* socket.emit: the sender, who gets nothing once the socket has closed
ToSender(c) == IF conn[c] = "open" THEN {c} ELSE {}

Msg(event, audience, body) == [event |-> event, to |-> audience, body |-> body]
ErrorMsg(c, message) == Msg("error", ToSender(c), [message |-> message])

JsNull == [type |-> "null", val |-> EmptyStr]
OrNull(v, falsy) == IF v = falsy THEN JsNull ELSE Str(v)
\* the room-state payload: x || null, x || 0, x || false
RoomStateBody(room) ==
    [videoId |-> OrNull(room.videoId, EmptyStr),
     time |-> room.time,
     playing |-> room.playing,
     moderatorId |-> OrNull(room.moderatorId, ""),
     queue |-> room.queue]

\* ---------------------------------------------------------------- redis
\* the steps below issue one command each and apply it at once
Hgetall(roomId) == ParseRoom(store[roomId])
\* the HSET of setRoom; a key that is created has no expiry
IssueHset(roomId, state) ==
    /\ store' = [store EXCEPT ![roomId] = HSet(@, Payload(state))]
    /\ UNCHANGED ttl
\* EXPIRE key 86400 and PERSIST key do nothing to a key that is gone
IssueExpire(roomId) ==
    /\ ttl' = [ttl EXCEPT ![roomId] = (store[roomId] # EmptyHash)]
    /\ UNCHANGED store
IssuePersist(roomId) ==
    /\ ttl' = [ttl EXCEPT ![roomId] = FALSE]
    /\ UNCHANGED store

\* a handler suspended at an await: where, and its locals (arg is the
\* payload field it still needs, or the reply of fetchSockets); was keeps
\* the room's hash and expiry and the bindings as the event found them
Running(kind, pc, roomId, room, arg) ==
    [kind |-> kind, pc |-> pc, roomId |-> roomId, room |-> room, arg |-> arg,
     was |-> [hash |-> store[roomId], ttl |-> ttl[roomId], data |-> data]]
Moved(t, pc, room) == [t EXCEPT !.pc = pc, !.room = room]
At(c, slot, kind, pc) == task[<<c, slot>>].kind = kind /\ task[<<c, slot>>].pc = pc
SetTask(c, slot, t) == task' = [task EXCEPT ![<<c, slot>>] = t]
Finish(c, slot) == SetTask(c, slot, Idle)

InFlight == {t \in Tasks : task[t] # Idle}
\* a handler can start while fewer than MaxInFlight are suspended
CanStart == Cardinality(InFlight) < MaxInFlight
\* an inbound event can be received on an open connection with no handler
\* of an earlier event still in flight
CanReceive(c) ==
    /\ conn[c] = "open"
    /\ task[<<c, "ev">>] = Idle

\* ---------------------------------------------------------------- join-room
\* socket.on('join-room'), up to the HGETALL of ensureRoomExists
JoinRoom(c, roomId, name) ==
    /\ CanReceive(c)
    /\ nEvents' = nEvents + 1
    /\ inbound' = Inbound(c, "join-room", roomId)
    /\ IF roomId = ""
       THEN /\ out' = <<ErrorMsg(c, "roomId required")>>
            /\ UNCHANGED <<store, ttl, conn, data, rooms, task>>
       ELSE /\ rooms' = [rooms EXCEPT ![roomId] = JoinAdapter(@, c)]
            /\ data' = [data EXCEPT ![c] =
                          [roomId |-> roomId,
                           name |-> IF name = "" THEN DefaultName ELSE name]]
            /\ SetTask(c, "ev", Running("join", "ensure", roomId, Hgetall(roomId), << >>))
            /\ out' = << >>
            /\ UNCHANGED <<store, ttl, conn>>

\* join-room that makes every joiner the moderator
Joined_TakesModerator(room, socketId) ==
    [room EXCEPT !.membersCount = @ + 1, !.moderatorId = socketId]

\* room.membersCount = (room.membersCount || 0) + 1;
\* if (!room.moderatorId) room.moderatorId = socket.id
Joined(room, socketId) ==
    [room EXCEPT !.membersCount = @ + 1,
                 !.moderatorId = IF @ = "" THEN socketId ELSE @]

\* ensureRoomExists found the room: count the member and issue setRoom's HSET
JoinExisting(c) ==
    /\ At(c, "ev", "join", "ensure")
    /\ task[<<c, "ev">>].room # NullRoom
    /\ LET t == task[<<c, "ev">>]
           room == Joined(t.room, c)
       IN  /\ IssueHset(t.roomId, room)
           /\ SetTask(c, "ev", Moved(t, "ttl", room))
    /\ out' = << >>
    /\ UNCHANGED <<conn, data, rooms, nEvents>>
    /\ inbound' = NoEvent

\* ensureRoomExists found no room: setRoom(roomId, initial), its HSET
JoinCreate(c) ==
    /\ At(c, "ev", "join", "ensure")
    /\ task[<<c, "ev">>].room = NullRoom
    /\ LET t == task[<<c, "ev">>]
           initial == InitialRoom(c)
       IN  /\ IssueHset(t.roomId, initial)
           /\ SetTask(c, "ev", Moved(t, "ensure_ttl", initial))
    /\ out' = << >>
    /\ UNCHANGED <<conn, data, rooms, nEvents>>
    /\ inbound' = NoEvent

\* setRoom(roomId, initial) after its HSET: initial.membersCount === 0, EXPIRE
JoinCreateExpire(c) ==
    /\ At(c, "ev", "join", "ensure_ttl")
    /\ LET t == task[<<c, "ev">>]
       IN  /\ IssueExpire(t.roomId)
           /\ SetTask(c, "ev", Moved(t, "ensured", t.room))
    /\ out' = << >>
    /\ UNCHANGED <<conn, data, rooms, nEvents>>
    /\ inbound' = NoEvent

\* ensureRoomExists returned initial: count the member, setRoom's HSET
JoinCreated(c) ==
    /\ At(c, "ev", "join", "ensured")
    /\ LET t == task[<<c, "ev">>]
           room == Joined(t.room, c)
       IN  /\ IssueHset(t.roomId, room)
           /\ SetTask(c, "ev", Moved(t, "ttl", room))
    /\ out' = << >>
    /\ UNCHANGED <<conn, data, rooms, nEvents>>
    /\ inbound' = NoEvent

\* setRoom after its HSET, for every handler that saves:
\* if (state.membersCount === 0) EXPIRE else PERSIST
SetRoomTtl(c, slot) ==
    /\ task[<<c, slot>>].pc = "ttl"
    /\ LET t == task[<<c, slot>>]
       IN  /\ IF t.room.membersCount = 0
              THEN IssueExpire(t.roomId)
              ELSE IssuePersist(t.roomId)
           /\ SetTask(c, slot, Moved(t, "saved", t.room))
    /\ out' = << >>
    /\ UNCHANGED <<conn, data, rooms, nEvents>>
    /\ inbound' = NoEvent

\* io.to(roomId).emit('users'); socket.emit('room-state')
JoinEmit(c) ==
    /\ At(c, "ev", "join", "saved")
    /\ LET t == task[<<c, "ev">>]
       IN  out' = <<Msg("users", ToRoom(t.roomId), [count |-> t.room.membersCount]),
                    Msg("room-state", ToSender(c), RoomStateBody(t.room))>>
    /\ Finish(c, "ev")
    /\ UNCHANGED <<store, ttl, conn, data, rooms, nEvents>>
    /\ inbound' = NoEvent


\* ---------------------------------------------------------------- events of a bound session
\* a handler that answers an unbound connection with an error
Receive_ReportsUnbound(c, kind, arg) ==
    /\ CanReceive(c)
    /\ nEvents' = nEvents + 1
    /\ inbound' = Inbound(c, kind, arg)
    /\ IF data[c].roomId = ""
       THEN /\ out' = <<ErrorMsg(c, "join a room first")>>
            /\ UNCHANGED task
       ELSE /\ out' = << >>
            /\ SetTask(c, "ev", Running(kind, "got", data[c].roomId,
                                        Hgetall(data[c].roomId), arg))
    /\ UNCHANGED <<store, ttl, conn, data, rooms>>

\* const roomId = socket.data.roomId; if (!roomId) return;
\* const room = await getRoom(roomId): common start of the handlers below
Receive(c, kind, arg) ==
    /\ CanReceive(c)
    /\ nEvents' = nEvents + 1
    /\ inbound' = Inbound(c, kind, arg)
    /\ out' = << >>
    /\ IF data[c].roomId = ""
       THEN UNCHANGED task
       ELSE SetTask(c, "ev", Running(kind, "got", data[c].roomId,
                                     Hgetall(data[c].roomId), arg))
    /\ UNCHANGED <<store, ttl, conn, data, rooms>>

\* if (!room) return
GotNoRoom(c, slot) ==
    /\ task[<<c, slot>>].pc = "got"
    /\ task[<<c, slot>>].room = NullRoom
    /\ Finish(c, slot)
    /\ out' = << >>
    /\ UNCHANGED <<store, ttl, conn, data, rooms, nEvents>>
    /\ inbound' = NoEvent

\* ---------------------------------------------------------------- load-video
LoadVideo(c, videoId) == Receive(c, "load-video", videoId)

\* load-video without its moderator check
LoadVerdict_NoGate(room, socketId, videoId) ==
    IF ~isValidYouTubeId(videoId) THEN "Invalid YouTube id" ELSE "ok"

\* the two checks of load-video, in the order the handler makes them
LoadVerdict(room, socketId, videoId) ==
    IF room.moderatorId # "" /\ socketId # room.moderatorId
    THEN "Only moderator can load video"
    ELSE IF ~isValidYouTubeId(videoId)
    THEN "Invalid YouTube id"
    ELSE "ok"

\* load-video that forgets to rewind
Loaded_KeepsPosition(room, videoId) ==
    [room EXCEPT !.videoId = videoId.val, !.playing = FALSE]

\* room.videoId = videoId; room.time = 0; room.playing = false
Loaded(room, videoId) ==
    [room EXCEPT !.videoId = videoId.val, !.time = 0, !.playing = FALSE]

LoadRejected(c) ==
    /\ At(c, "ev", "load-video", "got")
    /\ task[<<c, "ev">>].room # NullRoom
    /\ LET t == task[<<c, "ev">>]
           verdict == LoadVerdict(t.room, c, t.arg)
       IN  /\ verdict # "ok"
           /\ out' = <<ErrorMsg(c, verdict)>>
    /\ Finish(c, "ev")
    /\ UNCHANGED <<store, ttl, conn, data, rooms, nEvents>>
    /\ inbound' = NoEvent

LoadAccepted(c) ==
    /\ At(c, "ev", "load-video", "got")
    /\ task[<<c, "ev">>].room # NullRoom
    /\ LET t == task[<<c, "ev">>]
           room == Loaded(t.room, t.arg)
       IN  /\ LoadVerdict(t.room, c, t.arg) = "ok"
           /\ IssueHset(t.roomId, room)
           /\ SetTask(c, "ev", Moved(t, "ttl", room))
    /\ out' = << >>
    /\ UNCHANGED <<conn, data, rooms, nEvents>>
    /\ inbound' = NoEvent

\* io.to(roomId).emit('load-video', { videoId })
LoadEmit(c) ==
    /\ At(c, "ev", "load-video", "saved")
    /\ LET t == task[<<c, "ev">>]
       IN  out' = <<Msg("load-video", ToRoom(t.roomId), [videoId |-> t.arg])>>
    /\ Finish(c, "ev")
    /\ UNCHANGED <<store, ttl, conn, data, rooms, nEvents>>
    /\ inbound' = NoEvent

\* ---------------------------------------------------------------- play, pause, seek
Play(c, time) == Receive(c, "play", time)
Pause(c, time) == Receive(c, "pause", time)
Seek(c, time) == Receive(c, "seek", time)

\* room.time = Number(time || 0); room.playing = true
Played(room, time) == [room EXCEPT !.time = time, !.playing = TRUE]

\* pause that toggles the flag instead of clearing it
Paused_Toggles(room, time) == [room EXCEPT !.time = time, !.playing = ~@]

\* room.time = Number(time || 0); room.playing = false
Paused(room, time) == [room EXCEPT !.time = time, !.playing = FALSE]

\* seek that also stops playback
Sought_Pauses(room, time) == [room EXCEPT !.time = time, !.playing = FALSE]

\* room.time = Number(time || 0), playing as it was
Sought(room, time) == [room EXCEPT !.time = time]

PlaybackGot(c, kind, room) ==
    /\ At(c, "ev", kind, "got")
    /\ task[<<c, "ev">>].room # NullRoom
    /\ IssueHset(task[<<c, "ev">>].roomId, room)
    /\ SetTask(c, "ev", Moved(task[<<c, "ev">>], "ttl", room))
    /\ out' = << >>
    /\ UNCHANGED <<conn, data, rooms, nEvents>>
    /\ inbound' = NoEvent

PlayGot(c) == PlaybackGot(c, "play", Played(task[<<c, "ev">>].room, task[<<c, "ev">>].arg))
PauseGot(c) == PlaybackGot(c, "pause", Paused(task[<<c, "ev">>].room, task[<<c, "ev">>].arg))
SeekGot(c) == PlaybackGot(c, "seek", Sought(task[<<c, "ev">>].room, task[<<c, "ev">>].arg))

\* socket.to(roomId).emit(kind, { time: room.time })
PlaybackEmit(c, kind) ==
    /\ At(c, "ev", kind, "saved")
    /\ LET t == task[<<c, "ev">>]
       IN  out' = <<Msg(kind, ToOthers(t.roomId, c), [time |-> t.room.time])>>
    /\ Finish(c, "ev")
    /\ UNCHANGED <<store, ttl, conn, data, rooms, nEvents>>
    /\ inbound' = NoEvent

PlayEmit(c) == PlaybackEmit(c, "play")
PauseEmit(c) == PlaybackEmit(c, "pause")
SeekEmit(c) == PlaybackEmit(c, "seek")

\* ---------------------------------------------------------------- chat, request-sync
\* chat that forgets to test its text
Chat_SendsEmpty(c, text) ==
    /\ CanReceive(c)
    /\ nEvents' = nEvents + 1
    /\ inbound' = Inbound(c, "chat", text)
    /\ out' = IF data[c].roomId = ""
              THEN << >>
              ELSE <<Msg("chat", ToRoom(data[c].roomId),
                         [name |-> IF data[c].name = "" THEN "Anon" ELSE data[c].name,
                          text |-> text])>>
    /\ UNCHANGED <<store, ttl, conn, data, rooms, task>>

\* if (!roomId || !text) return; io.to(roomId).emit('chat', { name, text })
Chat(c, text) ==
    /\ CanReceive(c)
    /\ nEvents' = nEvents + 1
    /\ inbound' = Inbound(c, "chat", text)
    /\ out' = IF data[c].roomId = "" \/ text = ""
              THEN << >>
              ELSE <<Msg("chat", ToRoom(data[c].roomId),
                         [name |-> IF data[c].name = "" THEN "Anon" ELSE data[c].name,
                          text |-> text])>>
    /\ UNCHANGED <<store, ttl, conn, data, rooms, task>>

RequestSync(c) == Receive(c, "request-sync", << >>)

SyncEmit(c) ==
    /\ At(c, "ev", "request-sync", "got")
    /\ task[<<c, "ev">>].room # NullRoom
    /\ out' = <<Msg("room-state", ToSender(c), RoomStateBody(task[<<c, "ev">>].room))>>
    /\ Finish(c, "ev")
    /\ UNCHANGED <<store, ttl, conn, data, rooms, nEvents>>
    /\ inbound' = NoEvent

\* ---------------------------------------------------------------- disconnect
\* the socket closes: it leaves every room, then 'disconnect' fires and the
\* handler runs up to its getRoom
Disconnect(c) ==
    /\ conn[c] = "open"
    /\ conn' = [conn EXCEPT ![c] = "closed"]
    /\ rooms' = [r \in Rooms |-> Without(rooms[r], c)]
    /\ out' = << >>
    /\ IF data[c].roomId = ""
       THEN UNCHANGED task
       ELSE SetTask(c, "dc", Running("disconnect", "got", data[c].roomId,
                                     Hgetall(data[c].roomId), << >>))
    /\ UNCHANGED <<store, ttl, data, nEvents>>
    /\ inbound' = Inbound(c, "disconnect", << >>)

Max(a, b) == IF a >= b THEN a ELSE b
\* room.membersCount = Math.max(0, (room.membersCount || 1) - 1)
Left(room) ==
    [room EXCEPT !.membersCount =
        Max(0, (IF room.membersCount = 0 THEN 1 ELSE room.membersCount) - 1)]
\* room.moderatorId = sockets.length ? sockets[0].id : ''
Reelected(room, sockets) ==
    [room EXCEPT !.moderatorId = IF Len(sockets) > 0 THEN sockets[1] ELSE ""]

\* the departed socket is not the moderator: straight to setRoom's HSET
DisconnectMember(c) ==
    /\ At(c, "dc", "disconnect", "got")
    /\ task[<<c, "dc">>].room # NullRoom
    /\ task[<<c, "dc">>].room.moderatorId # c
    /\ LET t == task[<<c, "dc">>]
           room == Left(t.room)
       IN  /\ IssueHset(t.roomId, room)
           /\ SetTask(c, "dc", Moved(t, "ttl", room))
    /\ out' = << >>
    /\ UNCHANGED <<conn, data, rooms, nEvents>>
    /\ inbound' = NoEvent

\* the moderator left: await io.in(roomId).fetchSockets(), which reads the
\* adapter's room when it is called
DisconnectModerator(c) ==
    /\ At(c, "dc", "disconnect", "got")
    /\ task[<<c, "dc">>].room # NullRoom
    /\ task[<<c, "dc">>].room.moderatorId = c
    /\ LET t == task[<<c, "dc">>]
       IN  SetTask(c, "dc", [Moved(t, "fetched", Left(t.room))
                               EXCEPT !.arg = rooms[t.roomId]])
    /\ out' = << >>
    /\ UNCHANGED <<store, ttl, conn, data, rooms, nEvents>>
    /\ inbound' = NoEvent

DisconnectReelect(c) ==
    /\ At(c, "dc", "disconnect", "fetched")
    /\ LET t == task[<<c, "dc">>]
           room == Reelected(t.room, t.arg)
       IN  /\ IssueHset(t.roomId, room)
           /\ SetTask(c, "dc", Moved(t, "ttl", room))
    /\ out' = << >>
    /\ UNCHANGED <<conn, data, rooms, nEvents>>
    /\ inbound' = NoEvent

\* if (room.membersCount === 0) log only; else io.to(roomId).emit('users')
DisconnectEmit(c) ==
    /\ At(c, "dc", "disconnect", "saved")
    /\ LET t == task[<<c, "dc">>]
       IN  out' = IF t.room.membersCount = 0
                  THEN << >>
                  ELSE <<Msg("users", ToRoom(t.roomId), [count |-> t.room.membersCount])>>
    /\ Finish(c, "dc")
    /\ UNCHANGED <<store, ttl, conn, data, rooms, nEvents>>
    /\ inbound' = NoEvent

\* ---------------------------------------------------------------- expiry
\* Redis removes a key whose 24 h expiry has run out
ExpireKey(r) ==
    /\ ttl[r]
    /\ store[r] # EmptyHash
    /\ store' = [store EXCEPT ![r] = EmptyHash]
    /\ ttl' = [ttl EXCEPT ![r] = FALSE]
    /\ out' = << >>
    /\ UNCHANGED <<conn, data, rooms, task, nEvents>>
    /\ inbound' = NoEvent

\* ---------------------------------------------------------------- specification
\* a continuation of a handler in flight that found its room
Continue(c) ==
    \/ JoinExisting(c) \/ JoinCreate(c) \/ JoinCreateExpire(c) \/ JoinCreated(c)
    \/ JoinEmit(c)
    \/ LoadRejected(c) \/ LoadAccepted(c) \/ LoadEmit(c)
    \/ PlayGot(c) \/ PauseGot(c) \/ SeekGot(c)
    \/ PlayEmit(c) \/ PauseEmit(c) \/ SeekEmit(c)
    \/ SyncEmit(c)
    \/ DisconnectMember(c) \/ DisconnectModerator(c) \/ DisconnectReelect(c)
    \/ DisconnectEmit(c)
    \/ \E slot \in Slots : SetRoomTtl(c, slot)

\* handlers interleave at their awaits: the connections of RaceConns send
\* up to MaxRaceEvents events, with up to MaxInFlight handlers suspended
RaceOk == nEvents < MaxRaceEvents /\ CanStart

Next ==
    \/ \E c \in RaceConns, roomId \in RoomInputs :
          RaceOk /\ JoinRoom(c, roomId, ClientName[c])
    \/ \E c \in RaceConns, videoId \in VideoInputs : RaceOk /\ LoadVideo(c, videoId)
    \/ \E c \in RaceConns, time \in TimeInputs : RaceOk /\ Play(c, time)
    \/ \E c \in RaceConns, time \in TimeInputs : RaceOk /\ Pause(c, time)
    \/ \E c \in RaceConns, time \in TimeInputs : RaceOk /\ Seek(c, time)
    \/ \E c \in RaceConns, text \in ChatInputs : RaceOk /\ Chat(c, text)
    \/ \E c \in RaceConns : RaceOk /\ RequestSync(c)
    \/ \E c \in RaceConns : CanStart /\ Disconnect(c)
    \/ \E c \in Conns : Continue(c)
    \/ \E c \in Conns, slot \in Slots : GotNoRoom(c, slot)
    \/ \E r \in Rooms : ExpireKey(r)

Spec == Init /\ [][Next]_vars

\* no handler is in flight
Quiet == \A t \in Tasks : task[t] = Idle
\* the next event is handled once the handler before it has completed
SerialOk == Quiet /\ nEvents < MaxEvents

\* every handler runs to completion before the next event is handled or a
\* key expires; the room of a bound session is then never gone, so
\* GotNoRoom has no part in it
SerialNext ==
    \/ \E c \in Conns, roomId \in RoomInputs :
          SerialOk /\ JoinRoom(c, roomId, ClientName[c])
    \/ \E c \in Conns, videoId \in VideoInputs : SerialOk /\ LoadVideo(c, videoId)
    \/ \E c \in Conns, time \in TimeInputs : SerialOk /\ Play(c, time)
    \/ \E c \in Conns, time \in TimeInputs : SerialOk /\ Pause(c, time)
    \/ \E c \in Conns, time \in TimeInputs : SerialOk /\ Seek(c, time)
    \/ \E c \in Conns, text \in ChatInputs : SerialOk /\ Chat(c, text)
    \/ \E c \in Conns : SerialOk /\ RequestSync(c)
    \/ \E c \in Conns : Quiet /\ Disconnect(c)
    \/ \E c \in Conns : Continue(c)
    \/ \E r \in Rooms : Quiet /\ ExpireKey(r)

SpecSerial == Init /\ [][SerialNext]_vars


\* ---------------------------------------------------------------- store failures
\* the awaits of a handler at which a Redis command is pending: the read it
\* waits for, or the write its continuation would issue next
AwaitsStore == {"ensure", "ensure_ttl", "ensured", "got", "fetched", "ttl"}

\* the pending command is rejected (ioredis gives up on an unreachable
\* server): it has no effect on the store, and the await throws inside an
\* async handler that has no try / catch
StoreFails(c, slot) ==
    /\ task[<<c, slot>>].pc \in AwaitsStore
    /\ SetTask(c, slot, [task[<<c, slot>>] EXCEPT !.pc = "rejected"])
    /\ out' = << >>
    /\ UNCHANGED <<store, ttl, conn, data, rooms, nEvents>>
    /\ inbound' = NoEvent

\* the process after an unhandled rejection brought it down
Down == [kind |-> "down", pc |-> "down"]

\* nothing handles the rejection (no catch, no 'unhandledRejection'
\* listener): Node either only warns, and the handler is gone, or raises it
\* as an uncaught exception and exits, depending on its version and flags
Unhandled(c, slot) ==
    /\ task[<<c, slot>>].pc = "rejected"
    /\ \E outcome \in {Idle, Down} : SetTask(c, slot, outcome)
    /\ out' = << >>
    /\ UNCHANGED <<store, ttl, conn, data, rooms, nEvents>>
    /\ inbound' = NoEvent

\* the handlers of the events of RaceConns, run one after the other over a
\* store that can fail; once the process is down no task is idle, so
\* nothing more is handled
FaultyNext ==
    \/ \E c \in RaceConns, roomId \in RoomInputs :
          SerialOk /\ JoinRoom(c, roomId, ClientName[c])
    \/ \E c \in RaceConns, videoId \in VideoInputs : SerialOk /\ LoadVideo(c, videoId)
    \/ \E c \in RaceConns, time \in TimeInputs : SerialOk /\ Play(c, time)
    \/ \E c \in RaceConns, time \in TimeInputs : SerialOk /\ Pause(c, time)
    \/ \E c \in RaceConns, time \in TimeInputs : SerialOk /\ Seek(c, time)
    \/ \E c \in RaceConns, text \in ChatInputs : SerialOk /\ Chat(c, text)
    \/ \E c \in RaceConns : SerialOk /\ RequestSync(c)
    \/ \E c \in RaceConns : Quiet /\ Disconnect(c)
    \/ \E c \in RaceConns : Continue(c)
    \/ \E r \in Rooms : Quiet /\ ExpireKey(r)
    \/ \E c \in RaceConns, slot \in Slots : StoreFails(c, slot)
    \/ \E c \in RaceConns, slot \in Slots : Unhandled(c, slot)

SpecFaulty == Init /\ [][FaultyNext]_vars

\* ---------------------------------------------------------------- playback races
\* the continuations of the join and playback handlers
PlaybackContinue(c) ==
    \/ JoinExisting(c) \/ JoinCreate(c) \/ JoinCreateExpire(c) \/ JoinCreated(c)
    \/ JoinEmit(c)
    \/ LoadRejected(c) \/ LoadAccepted(c) \/ LoadEmit(c)
    \/ PlayGot(c) \/ PauseGot(c) \/ SeekGot(c)
    \/ PlayEmit(c) \/ PauseEmit(c) \/ SeekEmit(c)
    \/ SetRoomTtl(c, "ev")

\* a playback event is received once the joins have completed
PlaybackOk ==
    /\ nEvents < MaxPlaybackEvents
    /\ CanStart
    /\ \A c \in Conns : task[<<c, "ev">>].kind # "join"

\* the connections of RaceConns join PlaybackRoom once each, one after the
\* other, and the handlers of their playback events interleave
PlaybackNext ==
    \/ \E c \in RaceConns :
          /\ Quiet /\ nEvents < MaxPlaybackEvents /\ data[c].roomId = ""
          /\ JoinRoom(c, PlaybackRoom, ClientName[c])
    \/ \E c \in RaceConns, videoId \in VideoInputs : PlaybackOk /\ LoadVideo(c, videoId)
    \/ \E c \in RaceConns, time \in TimeInputs : PlaybackOk /\ Play(c, time)
    \/ \E c \in RaceConns, time \in TimeInputs : PlaybackOk /\ Pause(c, time)
    \/ \E c \in RaceConns, time \in TimeInputs : PlaybackOk /\ Seek(c, time)
    \/ \E c \in RaceConns : PlaybackContinue(c)

SpecPlayback == Init /\ [][PlaybackNext]_vars


\* ---------------------------------------------------------------- properties
\* the room record as getRoom reads it, now and after the step
Room(r) == ParseRoom(store[r])
RoomAfter(r) == ParseRoom(store'[r])
Exists(r) == store[r] # EmptyHash
\* the sessions of a room: the open connections bound to it
Bound(r) == {c \in Conns : conn[c] = "open" /\ data[c].roomId = r}
Ev(c) == task[<<c, "ev">>]
Dc(c) == task[<<c, "dc">>]

\* C1: after any sequence of events, once their handlers have completed,
\* memberCount >= 0 and moderatorId is empty exactly when memberCount is 0.
C1_CountAndModerator ==
    Quiet => \A r \in Rooms : Exists(r) =>
        /\ Room(r).membersCount >= 0
        /\ (Room(r).moderatorId = "") <=> (Room(r).membersCount = 0)

\* C2: a non-empty moderatorId is the id of a connection that is open and
\* bound to that room.
C2_ModeratorIsMember ==
    Quiet => \A r \in Rooms : (Exists(r) /\ Room(r).moderatorId # "") =>
        Room(r).moderatorId \in Bound(r)

\* C3: when the disconnect handler of a closed connection completes, no room
\* that still has members keeps the departed connection as its moderator or
\* has none, and the moderator the handler elects is one of those members.
C3_ReelectedFromMembers ==
    [][\A c \in Conns :
        /\ (At(c, "dc", "disconnect", "fetched") /\ Dc(c)' # Dc(c)
              /\ Bound(Dc(c).roomId) # {})
            => RoomAfter(Dc(c).roomId).moderatorId \in Bound(Dc(c).roomId)
        /\ (At(c, "dc", "disconnect", "saved") /\ Dc(c)' = Idle)
            => \A r \in Rooms : (Exists(r) /\ Bound(r) # {}) =>
                  Room(r).moderatorId \notin {c, ""}
      ]_vars

\* C4: after every completed handler memberCount is the number of open
\* connections bound to the room.
C4_CountIsSessions ==
    Quiet => \A r \in Rooms : Exists(r) =>
        Room(r).membersCount = Cardinality(Bound(r))


\* the handler of connection c in slot "ev" takes a step
EvSteps(c) == Ev(c)' # Ev(c)
OnlyError(c, message) ==
    /\ Len(out') = 1
    /\ out'[1].event = "error"
    /\ out'[1].body = [message |-> message]
    /\ out'[1].to \subseteq {c}
    /\ conn[c] = "open" => out'[1].to = {c}

\* C5: a load-video of a session that is not the moderator the room has is
\* rejected: no step of the handler changes the record or its expiry, it
\* broadcasts nothing and sends the sender alone the error "Only moderator
\* can load video"; with no moderator, a member's valid load is saved.
C5_NonModeratorRejected ==
    [][\A c \in Conns :
        (Ev(c).kind = "load-video" /\ Ev(c).room # NullRoom /\ EvSteps(c)) =>
           LET room == Ev(c).room IN
           /\ (room.moderatorId # "" /\ room.moderatorId # c) =>
                 /\ UNCHANGED <<store, ttl>>
                 /\ Ev(c).pc = "got" /\ Ev(c)' = Idle
                 /\ OnlyError(c, "Only moderator can load video")
           /\ (Ev(c).pc = "got" /\ room.moderatorId = ""
                 /\ Ev(c).arg \in {Str(IdRick), Str(IdXs)}) =>
                 /\ RoomAfter(Ev(c).roomId).videoId = Ev(c).arg.val
                 /\ Ev(c)'.pc = "ttl"
      ]_vars

\* a non-moderator has just been refused
C5_Witness ==
    \E c \in Conns, r \in Rooms :
        /\ out = <<Msg("error", {c}, [message |-> "Only moderator can load video"])>>
        /\ data[c].roomId = r
        /\ Exists(r)
        /\ Room(r).moderatorId \notin {"", c}

\* C6: a load-video whose id is not 11 characters of [a-zA-Z0-9_-] changes
\* neither the record nor its expiry and sends an error to the sender alone;
\* the videoId of every record is empty or passes the validator.
WellFormedId(s) == Len(s) = 11 /\ \A i \in 1..11 : s[i] \in IdChars

C6_StoredIdsValid ==
    \A r \in Rooms : Exists(r) =>
        \/ Room(r).videoId = EmptyStr
        \/ WellFormedId(Room(r).videoId)

C6_MalformedRejected ==
    /\ []C6_StoredIdsValid
    /\ [][\A c \in Conns :
            (Ev(c).kind = "load-video" /\ Ev(c).room # NullRoom /\ EvSteps(c)
               /\ ~(Ev(c).arg.type = "string" /\ WellFormedId(Ev(c).arg.val))) =>
               /\ UNCHANGED <<store, ttl>>
               /\ Ev(c)' = Idle
               /\ \/ OnlyError(c, "Invalid YouTube id")
                  \/ OnlyError(c, "Only moderator can load video")
          ]_vars

\* the moderator has just been refused a malformed id, the room keeping the
\* video it had
C6_Witness ==
    \E c \in Conns, r \in Rooms :
        /\ out = <<Msg("error", {c}, [message |-> "Invalid YouTube id"])>>
        /\ data[c].roomId = r
        /\ Exists(r)
        /\ Room(r).moderatorId = c
        /\ Room(r).videoId # EmptyStr


\* C7: a load-video(id) that is accepted saves videoId = id, position 0 and
\* playing false whatever the record held, with memberCount, moderatorId and
\* queue as they were, and when the handler completes the record still
\* reads so and load-video{videoId: id} goes to every socket of the room,
\* the sender among them.
C7_LoadResets ==
    [][\A c \in Conns :
        LET t == Ev(c)
            r == t.roomId
        IN  (t.kind = "load-video" /\ EvSteps(c)) =>
            /\ (t.pc = "got" /\ Ev(c)' # Idle) =>
                  /\ Exists(r)
                  /\ RoomAfter(r) = [Room(r) EXCEPT !.videoId = t.arg.val,
                                                    !.time = 0,
                                                    !.playing = FALSE]
            /\ (t.pc = "saved") =>
                  /\ Room(r).videoId = t.arg.val
                  /\ Room(r).time = 0
                  /\ Room(r).playing = FALSE
                  /\ UNCHANGED store
                  /\ Len(out') = 1
                  /\ out'[1].event = "load-video"
                  /\ out'[1].body = [videoId |-> t.arg]
                  /\ out'[1].to = SeqToSet(rooms[r])
                  /\ Bound(r) \cup {c} \subseteq out'[1].to
      ]_vars

\* a load by the moderator has just been broadcast to a room of two
C7_Witness ==
    \E c \in Conns, r \in Rooms :
        /\ Len(out) = 1
        /\ out[1].event = "load-video"
        /\ out[1].body = [videoId |-> Str(IdXs)]
        /\ c \in out[1].to
        /\ Cardinality(out[1].to) >= 2
        /\ data[c].roomId = r
        /\ Room(r) = [videoId |-> IdXs, time |-> 0, playing |-> FALSE,
                      membersCount |-> 2, moderatorId |-> c, queue |-> << >>]


\* what a join-room handler does, noVideo being the videoId of its
\* room-state snapshot for a record whose videoId is empty
JoinContract(noVideo) ==
    \A c \in Conns :
        LET t == Ev(c)
            r == t.roomId
        IN  (t.kind = "join" /\ EvSteps(c)) =>
            \* the room exists: one more member, the moderator kept if any
            /\ (t.pc = "ensure" /\ Exists(r)) =>
                  RoomAfter(r) =
                     [Room(r) EXCEPT !.membersCount = @ + 1,
                                     !.moderatorId = IF @ = "" THEN c ELSE @]
            \* a new room: its first member, who is the moderator
            /\ (t.pc = "ensured") =>
                  RoomAfter(r) = [videoId |-> EmptyStr, time |-> 0, playing |-> FALSE,
                                  membersCount |-> 1, moderatorId |-> c,
                                  queue |-> << >>]
            /\ (t.pc = "saved") =>
                  /\ UNCHANGED store
                  /\ Len(out') = 2
                  /\ out'[1].event = "users"
                  /\ out'[1].body = [count |-> Room(r).membersCount]
                  /\ out'[1].to = SeqToSet(rooms[r])
                  /\ Bound(r) \cup {c} \subseteq out'[1].to
                  /\ out'[2].event = "room-state"
                  /\ out'[2].to = {c}
                  /\ out'[2].body.videoId = IF Room(r).videoId = EmptyStr
                                             THEN noVideo
                                             ELSE Str(Room(r).videoId)
                  /\ out'[2].body.time = Room(r).time
                  /\ out'[2].body.playing = Room(r).playing
                  /\ out'[2].body.moderatorId = Str(Room(r).moderatorId)
                  /\ out'[2].body.queue = Room(r).queue

\* C8 as stated: a join-room adds exactly 1 to memberCount, makes the joiner
\* moderator exactly when the room had none, sends users{count} room-wide
\* and sends the joiner alone a room-state equal, field by field, to the
\* record the join saved.
C8_SnapshotEqualsRecord == [][JoinContract(Str(EmptyStr))]_vars

\* C8 as amended: the same, but the room-state carries videoId null when the
\* saved record has no video.
C8_JoinCountsAndSnapshots == [][JoinContract(JsNull)]_vars

\* a second session has just joined a room that has a video and another
\* moderator
C8_Witness ==
    \E c \in Conns, r \in Rooms :
        /\ Len(out) = 2
        /\ out[1].event = "users"
        /\ out[1].body = [count |-> 2]
        /\ out[2].event = "room-state"
        /\ out[2].to = {c}
        /\ out[2].body.videoId = Str(IdRick)
        /\ out[2].body.moderatorId \notin {Str(c), JsNull}
        /\ data[c].roomId = r
        /\ Room(r).membersCount = 2


C10_LeaveCountsDown ==
    [][\A c \in Conns :
        LET t == Dc(c)
            r == t.roomId
        IN  (t.kind = "disconnect" /\ Dc(c)' # Dc(c)) =>
            /\ (t.pc \in {"got", "fetched"} /\ Dc(c)'.pc = "ttl") =>
                  RoomAfter(r).membersCount = Max(0, Room(r).membersCount - 1)
            /\ (t.pc = "saved") =>
                  IF Bound(r) = {}
                  THEN /\ Room(r).membersCount = 0
                       /\ Room(r).moderatorId = ""
                       /\ ttl[r]
                       /\ out' = << >>
                  ELSE /\ Len(out') = 1
                       /\ out'[1] = Msg("users", SeqToSet(rooms[r]),
                                        [count |-> Room(r).membersCount])
      ]_vars


\* the connection whose event or handler the step belongs to, and the
\* audience the protocol declares for a message of that connection
Sender ==
    CHOOSE c \in Conns :
        \/ inbound'.conn = c
        \/ inbound' = NoEvent /\ (Ev(c)' # Ev(c) \/ Dc(c)' # Dc(c))
Audience(event, c) ==
    CASE event \in {"play", "pause", "seek"} -> Bound(data[c].roomId) \ {c}
      [] event \in {"load-video", "chat", "users"} -> Bound(data[c].roomId)
      [] OTHER -> {c}

\* C11: every message reaches exactly its declared audience: play, pause
\* and seek every other session bound to the sender's room, never the
\* sender nor a session bound to another room; load-video, chat and users
\* every session bound to the room, the sender included; room-state and
\* error the sender alone.
C11_DeclaredAudience ==
    [][\A i \in 1..Len(out') : out'[i].to = Audience(out'[i].event, Sender)]_vars


\* the memberCount of a room, 0 for a room that has no record
Count(r) == IF Exists(r) THEN Room(r).membersCount ELSE 0
CountAfter(r) == IF store'[r] # EmptyHash THEN RoomAfter(r).membersCount ELSE 0

\* C12: the first bind of a connection wins: a join-room that arrives on a
\* connection already bound, for the same room or another, changes neither
\* the connection's room and name nor, in any step of its handler, the
\* memberCount of any room.
C12_FirstBindWins ==
    [][\A c \in Conns :
        /\ (inbound' = Inbound(c, "join-room", inbound'.arg) /\ data[c].roomId # "")
              => /\ data'[c] = data[c]
                 /\ \A r \in Rooms : CountAfter(r) = Count(r)
        /\ (Ev(c).kind = "join" /\ EvSteps(c) /\ Ev(c).was.data[c].roomId # "")
              => /\ data'[c] = Ev(c).was.data[c]
                 /\ \A r \in Rooms : CountAfter(r) = Count(r)
      ]_vars


\* the events a session sends once it is bound, and the close of a socket
SessionEvents == {"load-video", "play", "pause", "seek", "chat",
                  "request-sync", "disconnect"}

\* no handler is in flight for a connection that has no room binding
C13_NoHandlerUnbound ==
    \A c \in Conns : data[c].roomId = "" => (Ev(c) = Idle /\ Dc(c) = Idle)

\* C13: a load-video, play, pause, seek, chat or request-sync received from
\* a connection that has no room binding is dropped: no handler runs for
\* it, no record or expiry is read-modified or written, and no message, an
\* error to the sender included, is sent; the close of a connection that
\* was never bound does nothing either.
C13_UnboundDropped ==
    /\ []C13_NoHandlerUnbound
    /\ [][\A c \in Conns :
            (inbound'.conn = c /\ inbound'.event \in SessionEvents
               /\ data[c].roomId = "") =>
               /\ UNCHANGED <<store, ttl, data, rooms, task>>
               /\ out' = << >>
               /\ inbound'.event # "disconnect" => UNCHANGED conn
          ]_vars

\* a load-video of an unbound connection has just been dropped while
\* another session's room exists
C13_Witness ==
    \E c \in Conns, r \in Rooms :
        /\ inbound = Inbound(c, "load-video", Str(IdRick))
        /\ conn[c] = "open"
        /\ data[c] = NoData
        /\ Exists(r)
        /\ Bound(r) # {}
        /\ out = << >>


\* the step sends the sender alone one error and nothing else (a sender
\* whose socket has closed meanwhile is out of reach)
ErrorOnly(c) ==
    /\ Len(out') = 1
    /\ out'[1].event = "error"
    /\ out'[1].to \subseteq {c}
    /\ conn[c] = "open" => out'[1].to = {c}

\* what the validation failures of a bound session's events and of
\* join-room do, chatErrors telling whether an empty chat is answered with
\* an error or with nothing
ValidationContract(chatErrors) ==
    \A c \in Conns :
        /\ inbound' = Inbound(c, "join-room", "") =>
              /\ ErrorOnly(c)
              /\ UNCHANGED <<store, ttl, data, rooms, task>>
        /\ (inbound' = Inbound(c, "chat", "") /\ data[c].roomId # "") =>
              /\ IF chatErrors THEN ErrorOnly(c) ELSE out' = << >>
              /\ UNCHANGED <<store, ttl, data, rooms, task>>
        /\ (Ev(c).kind = "load-video" /\ Ev(c).room # NullRoom /\ EvSteps(c)
              /\ ~isValidYouTubeId(Ev(c).arg)) =>
              /\ ErrorOnly(c)
              /\ Ev(c)' = Idle
              /\ UNCHANGED <<store, ttl, data, rooms>>

\* C14 as stated: a join-room with empty or absent roomId, a chat with
\* empty text and a load-video with a malformed id are each answered with an
\* error to the sender alone, with no state changed and nothing broadcast.
C14_ValidationErrors == [][ValidationContract(TRUE)]_vars

\* C14 as amended: the same for join-room and for the load-video of a
\* session bound to a room that exists, but a chat with empty text is
\* dropped with no message at all.
C14_EmptyChatDropped == [][ValidationContract(FALSE)]_vars

\* a bound session's empty chat has just been dropped
C14_Witness ==
    \E c \in Conns :
        /\ inbound = Inbound(c, "chat", "")
        /\ conn[c] = "open"
        /\ data[c].roomId # ""
        /\ Exists(data[c].roomId)
        /\ out = << >>


\* C15: when a store command fails during a handler, the operation is
\* abandoned with no visible effect: the room's record and expiry and the
\* connection's binding are as the event found them (nothing was broadcast,
\* a handler emitting only after its last store command), and the process
\* is not brought down.
C15_FailureLeavesNoTrace ==
    /\ \A c \in Conns, slot \in Slots :
          LET t == task[<<c, slot>>]
          IN  t.pc = "rejected" =>
                 /\ store[t.roomId] = t.was.hash
                 /\ ttl[t.roomId] = t.was.ttl
                 /\ data[c] = t.was.data[c]
    /\ \A t \in Tasks : task[t] # Down


\* C16: a pause(p) of a bound member saves position p and playing false
\* and leaves every other field as it was, so a pause(p) handled right
\* after a pause(p) leaves the record exactly as the first one left it.
C16_PauseIdempotent ==
    [][\A c \in Conns :
        LET t == Ev(c)
            r == t.roomId
        IN  (t.kind = "pause" /\ EvSteps(c)) =>
            /\ (t.pc = "got") =>
                  /\ RoomAfter(r) = [Room(r) EXCEPT !.time = t.arg,
                                                    !.playing = FALSE]
                  /\ (Room(r).time = t.arg /\ ~Room(r).playing) =>
                        store'[r] = store[r]
            /\ (t.pc = "ttl") => UNCHANGED store
            /\ (t.pc = "saved") =>
                  /\ UNCHANGED store
                  /\ Room(r) = [ParseRoom(t.was.hash) EXCEPT !.time = t.arg,
                                                             !.playing = FALSE]
                  /\ (ParseRoom(t.was.hash).time = t.arg
                        /\ ~ParseRoom(t.was.hash).playing) =>
                        store[r] = t.was.hash
      ]_vars

\* a pause(1) has completed on a record that was already paused at 1 and
\* left it as it was
C16_Witness ==
    \E c \in Conns :
        /\ At(c, "ev", "pause", "saved")
        /\ Ev(c).arg = 1
        /\ ParseRoom(Ev(c).was.hash).time = 1
        /\ ~ParseRoom(Ev(c).was.hash).playing
        /\ store[Ev(c).roomId] = Ev(c).was.hash


\* C17: a seek(p) handled to completion saves position p and leaves
\* playing, videoId, memberCount, moderatorId and queue as the event found
\* them; no step of a chat or of a request-sync changes a record or an
\* expiry.
C17_SeekFrame ==
    [][\A c \in Conns :
        LET t == Ev(c)
            r == t.roomId
        IN  /\ (t.kind = "seek" /\ EvSteps(c)) =>
                /\ (t.pc = "got") =>
                      RoomAfter(r) = [Room(r) EXCEPT !.time = t.arg]
                /\ (t.pc = "ttl") => UNCHANGED store
                /\ (t.pc = "saved") =>
                      /\ UNCHANGED store
                      /\ Room(r) = [ParseRoom(t.was.hash) EXCEPT !.time = t.arg]
            /\ (inbound'.conn = c /\ inbound'.event \in {"chat", "request-sync"})
                  => UNCHANGED <<store, ttl>>
            /\ (t.kind = "request-sync" /\ EvSteps(c)) => UNCHANGED <<store, ttl>>
      ]_vars

\* a seek(1) has completed on a record that was playing at 0 and is still
\* playing
C17_Witness ==
    \E c \in Conns :
        /\ At(c, "ev", "seek", "saved")
        /\ Ev(c).arg = 1
        /\ ParseRoom(Ev(c).was.hash).time = 0
        /\ ParseRoom(Ev(c).was.hash).playing
        /\ Room(Ev(c).roomId).time = 1
        /\ Room(Ev(c).roomId).playing


PlaybackKinds == {"play", "pause", "seek", "load-video"}

\* C18: the save of a play, pause, seek or load-video handler never changes
\* the memberCount or the moderatorId the record holds, and that of a play,
\* pause or seek never its videoId, whatever another handler of the room
\* saved between this handler's load and its save.
C18_SaveKeepsMembership ==
    [][\A c \in Conns :
        LET t == Ev(c)
            r == t.roomId
        IN  (t.kind \in PlaybackKinds /\ EvSteps(c) /\ Exists(r)) =>
               /\ store'[r] # EmptyHash
               /\ RoomAfter(r).membersCount = Room(r).membersCount
               /\ RoomAfter(r).moderatorId = Room(r).moderatorId
               /\ t.kind # "load-video" => RoomAfter(r).videoId = Room(r).videoId
      ]_vars


\* C19: when two connections have each sent one join-room for the same
\* room, however their handlers interleaved (the room new or not), then once
\* both have completed memberCount is 2, moderatorId names one of the two,
\* and the users{count} the last of them sent carries that memberCount.
C19_ConcurrentJoins ==
    \A r \in Rooms : \A c1, c2 \in Bound(r) :
        (c1 # c2 /\ Quiet /\ nEvents = 2 /\ Exists(r)) =>
            /\ Room(r).membersCount = 2
            /\ Room(r).moderatorId \in {c1, c2}
            /\ out # << >> =>
                  /\ out[1].event = "users"
                  /\ out[1].body = [count |-> Room(r).membersCount]


\* the record a playback handler in flight leaves when it is run alone,
\* from load to save, on the record R
RunAlone(c, R) ==
    LET t == Ev(c)
    IN  CASE t.kind = "play" -> Played(R, t.arg)
          [] t.kind = "pause" -> Paused(R, t.arg)
          [] t.kind = "seek" -> Sought(R, t.arg)
          [] t.kind = "load-video" ->
                IF LoadVerdict(R, c, t.arg) = "ok" THEN Loaded(R, t.arg) ELSE R

\* C20: when the handlers of two play, pause, seek or load-video events on
\* the same room have interleaved and both have issued their last store
\* command, the record is the one that running the two handlers one after
\* the other, in one of the two orders, leaves from the record the first of
\* them found.
C20_LastWriteSerializable ==
    \A c1, c2 \in Conns :
        LET r == Ev(c1).roomId
        IN  (/\ c1 # c2
             /\ Ev(c1).pc = "saved" /\ Ev(c1).kind \in PlaybackKinds
             /\ Ev(c2).pc = "saved" /\ Ev(c2).kind \in PlaybackKinds
             /\ Ev(c2).roomId = r) =>
            \E R \in {ParseRoom(Ev(c1).was.hash), ParseRoom(Ev(c2).was.hash)} :
                Room(r) \in {RunAlone(c2, RunAlone(c1, R)),
                             RunAlone(c1, RunAlone(c2, R))}

====
